---- MODULE Spec2Model ----
(***************************************************************************)
(* Model of the adaptive difficulty controller of Personalized_AI_Tutor:   *)
(* backend/tutor_api/ml/quiz_adapter.py (class QuizAdapter) and the        *)
(* handlers of backend/tutor_api/views.py that use it.                     *)
(*                                                                         *)
(* Numbers.  Scores, confidences and feature components are reals in the   *)
(* source; here they are integers counted in thousandths (1000 = 1.0).     *)
(* The arithmetic is exact rational arithmetic: a mean is kept as the pair *)
(* (sum, n) and compared by cross-multiplication.  The times of the model  *)
(* are multiples of 3 seconds, so time_taken / 300 is a whole number of    *)
(* thousandths, or lie where the quotient is cut off at once (59, 179 in   *)
(* evaluate_answer, whose sum is kept over a common denominator, and       *)
(* 10000).  IEEE rounding of the source's floats is not modelled.          *)
(*                                                                         *)
(* Specifications.                                                         *)
(*   Spec     one QuizAdapter object; any user submits any of ShortEvents, *)
(*            at most MaxCalls submissions in a run; all read methods.     *)
(*   SpecLong one QuizAdapter object; user 1 starts at any level and       *)
(*            submits the LongCalls events of a script; all read methods.  *)
(*   SpecSys  the User and UserProfile tables under RegisterView.post,     *)
(*            AdaptiveQuizView.post and AdaptiveQuizView.get.              *)
(*   SpecConc AdaptiveQuizView.post served for NumRequests submissions at  *)
(*            once, each as two steps: reading the profile row, saving it. *)
(*   SpecFeat one QuizAdapter object; user 1 submits answer events with    *)
(*            times and confidences inside and outside their valid ranges. *)
(*   SpecEval evaluate_answer alone, with arguments inside and outside     *)
(*            their valid ranges.                                          *)
(*   SpecSeeded one decision of a QuizAdapter object that already holds a  *)
(*            history for user 1, at any level the caller passes.          *)
(*   SpecBatch  batches of any size asked of such a QuizAdapter object.    *)
(***************************************************************************)
EXTENDS Integers, Sequences, FiniteSets, TLC

VARIABLES
    user_performance_history,  \* QuizAdapter.user_performance_history: dict user_id -> list
    current,                   \* the caller's current difficulty per user, fed back into the next call;
                               \* SpecSys, SpecConc: the level of the profile at registration / before the submissions
    appended,                  \* history variable: every score ever appended per user, oldest first
    script,                    \* SpecLong: <<offset, stride>>, the answer events of the run (see ScriptEvent)
    registered,                \* SpecSys: the ids of the rows of the User table
    profile,                   \* SpecSys, SpecConc: the UserProfile table, user id -> preferred_difficulty
    requests,                  \* SpecConc: the quiz submissions in flight, each with its position
    ret                        \* the last operation: its name, arguments and result

vars == <<user_performance_history, current, appended, script, registered, profile, requests, ret>>

----------------------------------------------------------------------------
(* Bounds of the model *)

NumUsers == 2
MaxCalls == 2          \* primary-path calls in one run of Spec, over all users
MaxQuestions == 3      \* largest num_questions of a batch request
LongCalls == 25        \* primary-path calls in one run of SpecLong
NumRequests == 2       \* quiz submissions in flight in one run of SpecConc

Users == 1..NumUsers

(* Program constants *)

Unit == 1000               \* 1.0 in thousandths
max_time == 300            \* quiz_adapter.py:83, :128
HistoryCap == 20           \* quiz_adapter.py:120
PrevWindow == 5            \* quiz_adapter.py:105
TrendWindow == 3           \* quiz_adapter.py:179
MinDifficulty == 1
MaxDifficulty == 3
GoodTrend == 700           \* 0.7, quiz_adapter.py:182
PoorTrend == 300           \* 0.3, quiz_adapter.py:184
NeutralPerformance == 500  \* 0.5, quiz_adapter.py:98
TimePenaltyWeight == 300   \* 0.3, quiz_adapter.py:130
ConfidenceWeight == 200    \* 0.2, quiz_adapter.py:134
ConfidentAnswer == 700     \* 0.7, quiz_adapter.py:262
TrendBand == 100           \* 0.1, quiz_adapter.py:298, :300
StrengthAverage == 700     \* 0.7, quiz_adapter.py:311
WeaknessAverage == 400     \* 0.4, quiz_adapter.py:313

----------------------------------------------------------------------------
(* Helpers *)

Max(a, b) == IF a >= b THEN a ELSE b
Min(a, b) == IF a <= b THEN a ELSE b

RECURSIVE SumSeq(_)
SumSeq(s) == IF s = <<>> THEN 0 ELSE Head(s) + SumSeq(Tail(s))

\* Python's s[-n:] for n > 0
LastN(s, n) == SubSeq(s, Max(1, Len(s) - n + 1), Len(s))

----------------------------------------------------------------------------
(* Answer events: quiz_result = {is_correct, time_taken, confidence} *)

TimeList == <<0, 300, 900>>
ConfidenceList == <<0, 1000>>
NumEvents == 2 * Len(TimeList) * Len(ConfidenceList)

\* the i-th answer event, i in 0 .. NumEvents - 1
EventAt(i) ==
    [is_correct |-> i % 2 = 0,
     time_taken |-> TimeList[((i \div 2) % Len(TimeList)) + 1],
     confidence |-> ConfidenceList[((i \div (2 * Len(TimeList))) % Len(ConfidenceList)) + 1]]

Events == {EventAt(i) : i \in 0 .. NumEvents - 1}

\* the events of the short runs: their scores are 1.0, 0.0, 0.7 and 0.3
ShortEvents == {EventAt(0), EventAt(1), EventAt(2), EventAt(10)}

\* the scripts of the long runs: the k-th call (k = 0, 1, ...) submits
\* EventAt((offset + k * stride) % NumEvents)
Strides == {0, 1, 2}
Scripts == (0 .. NumEvents - 1) \X Strides
ScriptEvent(sc, k) == EventAt((sc[1] + k * sc[2]) % NumEvents)
Times == {TimeList[i] : i \in DOMAIN TimeList}
Confidences == {ConfidenceList[i] : i \in DOMAIN ConfidenceList}

----------------------------------------------------------------------------
(* The classifier: StandardScaler + LogisticRegression fitted once, in     *)
(* _initialize_model, on five fixed rows.                                  *)

\* X_sample and y_sample, in thousandths
X_sample == << <<1000, 800, 900, 700>>,
               <<   0, 300, 400, 600>>,
               <<1000, 600, 700, 800>>,
               <<   0, 200, 300, 400>>,
               <<1000, 900, 800, 900>> >>
y_sample == <<1, 0, 1, 0, 1>>

\* (The rows are kept for reference; the fit itself is not recomputed here.)
\* The fitted decision function in the unscaled feature space, in
\* thousandths: coef_[j] / scale_[j] and
\* intercept_ - SUM_j coef_[j] * mean_[j] / scale_[j], for the unique
\* minimiser of  1/2 |w|^2 + SUM_i log(1 + exp(-s_i (w . z_i + b)))
\* (C = 1, L2 penalty, free intercept) over the standardised rows z_i:
\*   coef_ = (0.62134, 0.50247, 0.54046, 0.44489), intercept_ = 0.63499
\*   mean_ = (0.6, 0.56, 0.62, 0.68), scale_ = (0.48990, 0.27276, 0.23152, 0.17205)
\* Rounded to three decimals: a decision value within about 0.01 of zero
\* is not resolved by these numbers.
Coef == <<1268, 1842, 2334, 2586>>
Intercept == -4363

\* decision_function(x) * n * 10^6 for a feature vector whose fourth
\* component is the mean sum / n
DecisionValue(f) ==
    f.previous_performance.n
        * (Coef[1] * f.correctness + Coef[2] * f.time_score
           + Coef[3] * f.confidence + Intercept * Unit)
    + Coef[4] * f.previous_performance.sum

\* mutant: the two classes are swapped
predict_inverted(f) == IF DecisionValue(f) > 0 THEN 0 ELSE 1

\* difficulty_model.predict(...)[0]: class 1 when the decision value is > 0
predict(f) == IF DecisionValue(f) > 0 THEN 1 ELSE 0

----------------------------------------------------------------------------
(* QuizAdapter, method by method.  hist is the dict                        *)
(* user_performance_history: a function from the known user ids to lists. *)

EmptyHistory == [u \in {} |-> <<>>]

\* a request slot before its submission arrives
IdleRequest ==
    [pc |-> "idle", user_id |-> 0, is_correct |-> FALSE, time_taken |-> 0,
     preferred_difficulty |-> 0]
NoRequests == [r \in 1 .. NumRequests |-> IdleRequest]

\* mutant: the default for a user without history is 0.0
get_previous_performance_zero(hist, user_id) ==
    IF user_id \notin DOMAIN hist
    THEN [sum |-> 0, n |-> 1]
    ELSE IF Len(hist[user_id]) = 0
         THEN [sum |-> 0, n |-> 1]
         ELSE LET recent_scores == LastN(hist[user_id], PrevWindow)
              IN  [sum |-> SumSeq(recent_scores), n |-> Len(recent_scores)]

\* mutant: the mean is taken over the whole list ([-5:] dropped)
get_previous_performance_all(hist, user_id) ==
    IF user_id \notin DOMAIN hist
    THEN [sum |-> NeutralPerformance, n |-> 1]
    ELSE IF Len(hist[user_id]) = 0
         THEN [sum |-> NeutralPerformance, n |-> 1]
         ELSE [sum |-> SumSeq(hist[user_id]), n |-> Len(hist[user_id])]

get_previous_performance(hist, user_id) ==
    IF user_id \notin DOMAIN hist
    THEN [sum |-> NeutralPerformance, n |-> 1]
    ELSE IF Len(hist[user_id]) = 0
         THEN [sum |-> NeutralPerformance, n |-> 1]
         ELSE LET recent_scores == LastN(hist[user_id], PrevWindow)
              IN  [sum |-> SumSeq(recent_scores), n |-> Len(recent_scores)]

\* mutant: time_score without max(0, .)
extract_features_no_floor(hist, user_id, quiz_result) ==
    [correctness |-> IF quiz_result.is_correct THEN Unit ELSE 0,
     time_score  |-> Unit - ((quiz_result.time_taken * Unit) \div max_time),
     confidence  |-> quiz_result.confidence,
     previous_performance |-> get_previous_performance(hist, user_id)]

extract_features(hist, user_id, quiz_result) ==
    [correctness |-> IF quiz_result.is_correct THEN Unit ELSE 0,
     time_score  |-> Max(0, Unit - ((quiz_result.time_taken * Unit) \div max_time)),
     confidence  |-> quiz_result.confidence,
     previous_performance |-> get_previous_performance(hist, user_id)]

\* mutant: the score is returned without max(0, min(1, .))
calculate_performance_score_unclamped(quiz_result) ==
    LET correctness == IF quiz_result.is_correct THEN Unit ELSE 0
        time_penalty == Max(0, (quiz_result.time_taken * TimePenaltyWeight) \div max_time)
        confidence_bonus == (quiz_result.confidence * ConfidenceWeight) \div Unit
    IN  correctness - time_penalty + confidence_bonus

calculate_performance_score(quiz_result) ==
    LET correctness == IF quiz_result.is_correct THEN Unit ELSE 0
        time_penalty == Max(0, (quiz_result.time_taken * TimePenaltyWeight) \div max_time)
        confidence_bonus == (quiz_result.confidence * ConfidenceWeight) \div Unit
        score == correctness - time_penalty + confidence_bonus
    IN  Max(0, Min(Unit, score))

\* mutant: the list is never cut back to the last HistoryCap entries
update_user_history_uncapped(hist, user_id, quiz_result) ==
    LET old == IF user_id \in DOMAIN hist THEN hist[user_id] ELSE <<>>
        grown == Append(old, calculate_performance_score(quiz_result))
    IN  [u \in DOMAIN hist \cup {user_id} |-> IF u = user_id THEN grown ELSE hist[u]]

\* mutant: the cut keeps the first HistoryCap entries ([:20] for [-20:])
update_user_history_keep_head(hist, user_id, quiz_result) ==
    LET old == IF user_id \in DOMAIN hist THEN hist[user_id] ELSE <<>>
        grown == Append(old, calculate_performance_score(quiz_result))
        kept == IF Len(grown) > HistoryCap THEN SubSeq(grown, 1, HistoryCap) ELSE grown
    IN  [u \in DOMAIN hist \cup {user_id} |-> IF u = user_id THEN kept ELSE hist[u]]

\* mutant: the score is appended to the list of every known user
update_user_history_shared(hist, user_id, quiz_result) ==
    LET score == calculate_performance_score(quiz_result)
        grown(u) == Append(IF u \in DOMAIN hist THEN hist[u] ELSE <<>>, score)
        kept(u) == IF Len(grown(u)) > HistoryCap THEN LastN(grown(u), HistoryCap) ELSE grown(u)
    IN  [u \in DOMAIN hist \cup {user_id} |-> kept(u)]

\* mutant: the list is cut at 21 entries
update_user_history_keep_21(hist, user_id, quiz_result) ==
    LET old == IF user_id \in DOMAIN hist THEN hist[user_id] ELSE <<>>
        grown == Append(old, calculate_performance_score(quiz_result))
        kept == IF Len(grown) > HistoryCap + 1 THEN LastN(grown, HistoryCap + 1) ELSE grown
    IN  [u \in DOMAIN hist \cup {user_id} |-> IF u = user_id THEN kept ELSE hist[u]]

update_user_history(hist, user_id, quiz_result) ==
    LET old == IF user_id \in DOMAIN hist THEN hist[user_id] ELSE <<>>
        grown == Append(old, calculate_performance_score(quiz_result))
        kept == IF Len(grown) > HistoryCap THEN LastN(grown, HistoryCap) ELSE grown
    IN  [u \in DOMAIN hist \cup {user_id} |-> IF u = user_id THEN kept ELSE hist[u]]

\* mutant: the steps are taken without the tests against 3 and 1
next_level_unclamped(should_increase, current_difficulty) ==
    IF should_increase = 1 THEN current_difficulty + 1 ELSE current_difficulty - 1

\* mutant: the two branches are swapped
next_level_inverted(should_increase, current_difficulty) ==
    IF should_increase = 0 /\ current_difficulty < MaxDifficulty
    THEN current_difficulty + 1
    ELSE IF should_increase = 1 /\ current_difficulty > MinDifficulty
         THEN current_difficulty - 1
         ELSE current_difficulty

\* lines 66-71 of calculate_next_difficulty
next_level(should_increase, current_difficulty) ==
    IF should_increase = 1 /\ current_difficulty < MaxDifficulty
    THEN current_difficulty + 1
    ELSE IF should_increase = 0 /\ current_difficulty > MinDifficulty
         THEN current_difficulty - 1
         ELSE current_difficulty

\* mutant: the score is appended before the features are extracted
calculate_next_difficulty_append_first(hist, user_id, current_difficulty, quiz_result) ==
    LET updated == update_user_history(hist, user_id, quiz_result)
        features == extract_features(updated, user_id, quiz_result)
        should_increase == predict(features)
        new_difficulty == next_level(should_increase, current_difficulty)
    IN  [features |-> features,
         should_increase |-> should_increase,
         new_difficulty |-> new_difficulty,
         history |-> updated]

\* The whole of calculate_next_difficulty: the value returned and the dict
\* it leaves behind.
calculate_next_difficulty(hist, user_id, current_difficulty, quiz_result) ==
    LET features == extract_features(hist, user_id, quiz_result)
        should_increase == predict(features)
        new_difficulty == next_level(should_increase, current_difficulty)
    IN  [features |-> features,
         should_increase |-> should_increase,
         new_difficulty |-> new_difficulty,
         history |-> update_user_history(hist, user_id, quiz_result)]

\* mutant: the comparison with 0.7 is >= for >
adjust_question_difficulty_ge(hist, base_difficulty, user_id, question_index) ==
    IF user_id \notin DOMAIN hist
    THEN base_difficulty
    ELSE IF Len(hist[user_id]) = 0
         THEN base_difficulty
         ELSE LET history == hist[user_id]
                  recent == IF Len(history) >= TrendWindow
                            THEN [sum |-> SumSeq(LastN(history, TrendWindow)), n |-> TrendWindow]
                            ELSE [sum |-> history[Len(history)], n |-> 1]
                  adjusted == IF recent.sum >= GoodTrend * recent.n
                              THEN Min(MaxDifficulty, base_difficulty + 1)
                              ELSE IF recent.sum < PoorTrend * recent.n
                                   THEN Max(MinDifficulty, base_difficulty - 1)
                                   ELSE base_difficulty
              IN  Max(MinDifficulty, Min(MaxDifficulty, adjusted))

\* mutant: a history of fewer than 3 entries is averaged (np.mean(history[-3:])
\* whatever the length)
adjust_question_difficulty_short_mean(hist, base_difficulty, user_id, question_index) ==
    IF user_id \notin DOMAIN hist
    THEN base_difficulty
    ELSE IF Len(hist[user_id]) = 0
         THEN base_difficulty
         ELSE LET history == hist[user_id]
                  window == LastN(history, TrendWindow)
                  recent == [sum |-> SumSeq(window), n |-> Len(window)]
                  adjusted == IF recent.sum > GoodTrend * recent.n
                              THEN Min(MaxDifficulty, base_difficulty + 1)
                              ELSE IF recent.sum < PoorTrend * recent.n
                                   THEN Max(MinDifficulty, base_difficulty - 1)
                                   ELSE base_difficulty
              IN  Max(MinDifficulty, Min(MaxDifficulty, adjusted))

\* _adjust_question_difficulty; question_index is not read by the code
adjust_question_difficulty(hist, base_difficulty, user_id, question_index) ==
    IF user_id \notin DOMAIN hist
    THEN base_difficulty
    ELSE IF Len(hist[user_id]) = 0
         THEN base_difficulty
         ELSE LET history == hist[user_id]
                  \* recent_performance as the mean sum / n
                  recent == IF Len(history) >= TrendWindow
                            THEN [sum |-> SumSeq(LastN(history, TrendWindow)), n |-> TrendWindow]
                            ELSE [sum |-> history[Len(history)], n |-> 1]
                  adjusted == IF recent.sum > GoodTrend * recent.n
                              THEN Min(MaxDifficulty, base_difficulty + 1)
                              ELSE IF recent.sum < PoorTrend * recent.n
                                   THEN Max(MinDifficulty, base_difficulty - 1)
                                   ELSE base_difficulty
              IN  Max(MinDifficulty, Min(MaxDifficulty, adjusted))

\* _generate_sample_question: difficulty_texts[difficulty] raises KeyError
\* for a difficulty that is not 1, 2 or 3
KeyError == "KeyError"

\* mutant: difficulty_texts.get(difficulty) for difficulty_texts[difficulty]
generate_sample_question_lenient(topic_id, difficulty, question_num) ==
    [raised |-> "",
     question_num |-> question_num,
     difficulty_level |-> difficulty,
     topic_id |-> topic_id,
     points |-> difficulty]

generate_sample_question(topic_id, difficulty, question_num) ==
    IF difficulty \in MinDifficulty .. MaxDifficulty
    THEN [raised |-> "",
          question_num |-> question_num,
          difficulty_level |-> difficulty,
          topic_id |-> topic_id,
          points |-> difficulty]
    ELSE [raised |-> KeyError]

\* mutant: the dict is a defaultdict(list), so that looking a user up
\* creates the user's entry
get_adaptive_questions_registering(hist, topic_id, user_id, current_difficulty, num_questions) ==
    LET question(i) ==
            generate_sample_question(
                topic_id,
                adjust_question_difficulty(hist, current_difficulty, user_id, i - 1),
                i)
        count == Max(0, num_questions)
        left == [u \in DOMAIN hist \cup {user_id} |->
                    IF u \in DOMAIN hist THEN hist[u] ELSE <<>>]
    IN  IF \E i \in 1 .. count : question(i).raised = KeyError
        THEN [raised |-> KeyError, questions |-> <<>>, history |-> left]
        ELSE [raised |-> "", questions |-> [i \in 1 .. count |-> question(i)],
              history |-> left]

\* mutant: from the second question on, the adjusted level of the first
\* question is taken as the base
get_adaptive_questions_drifting(hist, topic_id, user_id, current_difficulty, num_questions) ==
    LET base(i) ==
            IF i = 1
            THEN current_difficulty
            ELSE adjust_question_difficulty(hist, current_difficulty, user_id, 0)
        question(i) ==
            generate_sample_question(
                topic_id,
                adjust_question_difficulty(hist, base(i), user_id, i - 1),
                i)
        count == Max(0, num_questions)
    IN  IF \E i \in 1 .. count : question(i).raised = KeyError
        THEN [raised |-> KeyError, questions |-> <<>>, history |-> hist]
        ELSE [raised |-> "", questions |-> [i \in 1 .. count |-> question(i)],
              history |-> hist]

\* get_adaptive_questions: the list built by the loop, or the exception
\* that leaves the loop, and the dict the call leaves behind
get_adaptive_questions(hist, topic_id, user_id, current_difficulty, num_questions) ==
    LET question(i) ==
            generate_sample_question(
                topic_id,
                adjust_question_difficulty(hist, current_difficulty, user_id, i - 1),
                i)
        count == Max(0, num_questions)
    IN  IF \E i \in 1 .. count : question(i).raised = KeyError
        THEN [raised |-> KeyError, questions |-> <<>>, history |-> hist]
        ELSE [raised |-> "", questions |-> [i \in 1 .. count |-> question(i)],
              history |-> hist]

\* int(x) of Python for the rational num / den, den > 0: truncation towards 0
TruncDiv(num, den) == IF num >= 0 THEN num \div den ELSE -((-num) \div den)

\* mutant: the first time bucket is closed at 60 (<= for <)
generate_feedback_le(is_correct, time_taken, confidence) ==
    IF is_correct
    THEN IF time_taken <= 60
         THEN "fast-correct"
         ELSE IF time_taken < 180 THEN "normal-correct" ELSE "slow-correct"
    ELSE IF confidence > ConfidentAnswer THEN "confident-incorrect" ELSE "encouraging-incorrect"

generate_feedback(is_correct, time_taken, confidence) ==
    IF is_correct
    THEN IF time_taken < 60
         THEN "fast-correct"
         ELSE IF time_taken < 180 THEN "normal-correct" ELSE "slow-correct"
    ELSE IF confidence > ConfidentAnswer THEN "confident-incorrect" ELSE "encouraging-incorrect"

\* mutant: time_bonus without max(0, .)
evaluate_answer_no_floor(user_answer, correct_answer, time_taken, confidence) ==
    LET is_correct == user_answer = correct_answer
        den == max_time * Unit
        base_score == IF is_correct THEN 10 ELSE 0
        time_bonus == (max_time - time_taken) * 5 * Unit
        confidence_bonus == IF is_correct THEN confidence * 2 * max_time ELSE 0
        total_score == base_score * den + time_bonus + confidence_bonus
    IN  [is_correct |-> is_correct,
         score |-> TruncDiv(total_score, den),
         feedback |-> generate_feedback(is_correct, time_taken, confidence),
         time_taken |-> time_taken,
         confidence |-> confidence]

\* mutant: the confidence bonus is added whether or not the answer is correct
evaluate_answer_always_bonus(user_answer, correct_answer, time_taken, confidence) ==
    LET is_correct == user_answer = correct_answer
        den == max_time * Unit
        base_score == IF is_correct THEN 10 ELSE 0
        time_bonus == Max(0, (max_time - time_taken) * 5 * Unit)
        confidence_bonus == confidence * 2 * max_time
        total_score == base_score * den + time_bonus + confidence_bonus
    IN  [is_correct |-> is_correct,
         score |-> TruncDiv(total_score, den),
         feedback |-> generate_feedback(is_correct, time_taken, confidence),
         time_taken |-> time_taken,
         confidence |-> confidence]

\* evaluate_answer; the sum base_score + time_bonus + confidence_bonus is
\* kept over the common denominator max_time * Unit
evaluate_answer(user_answer, correct_answer, time_taken, confidence) ==
    LET is_correct == user_answer = correct_answer
        den == max_time * Unit
        base_score == IF is_correct THEN 10 ELSE 0
        time_bonus == Max(0, (max_time - time_taken) * 5 * Unit)
        confidence_bonus == IF is_correct THEN confidence * 2 * max_time ELSE 0
        total_score == base_score * den + time_bonus + confidence_bonus
    IN  [is_correct |-> is_correct,
         score |-> TruncDiv(total_score, den),
         feedback |-> generate_feedback(is_correct, time_taken, confidence),
         time_taken |-> time_taken,
         confidence |-> confidence]

\* the dictionary of lines 270-276 and 281-287; it has no key
\* 'recent_performance'
NoAnalytics ==
    [total_attempts |-> 0,
     average_score |-> [sum |-> 0, n |-> 1],
     improvement_trend |-> "stable",
     strengths |-> {},
     weaknesses |-> {}]

\* mutant: the trend is also computed for fewer than 3 entries
performance_analytics_short_trend(hist, user_id) ==
    IF user_id \notin DOMAIN hist
    THEN NoAnalytics
    ELSE IF Len(hist[user_id]) = 0
    THEN NoAnalytics
    ELSE LET history == hist[user_id]
             n == Len(history)
             total == SumSeq(history)
             recent_sum == SumSeq(LastN(history, TrendWindow))
             \* earlier_avg as the mean sum / m
             earlier == IF n > TrendWindow
                        THEN [sum |-> SumSeq(SubSeq(history, 1, n - TrendWindow)),
                              m |-> n - TrendWindow]
                        ELSE [sum |-> history[1], m |-> 1]
             trend == IF n >= 1
                      THEN IF recent_sum * earlier.m
                                > TrendWindow * (earlier.sum + TrendBand * earlier.m)
                           THEN "improving"
                           ELSE IF recent_sum * earlier.m
                                     < TrendWindow * (earlier.sum - TrendBand * earlier.m)
                                THEN "declining"
                                ELSE "stable"
                      ELSE "stable"
         IN  [total_attempts |-> n,
              average_score |-> [sum |-> total, n |-> n],
              improvement_trend |-> trend,
              strengths |-> IF total > StrengthAverage * n
                            THEN {"Consistent high performance"} ELSE {},
              weaknesses |-> IF total < WeaknessAverage * n
                             THEN {"Need for fundamental review"} ELSE {},
              recent_performance |-> IF n >= PrevWindow
                                     THEN LastN(history, PrevWindow) ELSE history]

\* mutant: the strength test is >= for >
performance_analytics_ge(hist, user_id) ==
    IF user_id \notin DOMAIN hist
    THEN NoAnalytics
    ELSE IF Len(hist[user_id]) = 0
    THEN NoAnalytics
    ELSE LET history == hist[user_id]
             n == Len(history)
             total == SumSeq(history)
             recent_sum == SumSeq(LastN(history, TrendWindow))
             \* earlier_avg as the mean sum / m
             earlier == IF n > TrendWindow
                        THEN [sum |-> SumSeq(SubSeq(history, 1, n - TrendWindow)),
                              m |-> n - TrendWindow]
                        ELSE [sum |-> history[1], m |-> 1]
             trend == IF n >= TrendWindow
                      THEN IF recent_sum * earlier.m
                                > TrendWindow * (earlier.sum + TrendBand * earlier.m)
                           THEN "improving"
                           ELSE IF recent_sum * earlier.m
                                     < TrendWindow * (earlier.sum - TrendBand * earlier.m)
                                THEN "declining"
                                ELSE "stable"
                      ELSE "stable"
         IN  [total_attempts |-> n,
              average_score |-> [sum |-> total, n |-> n],
              improvement_trend |-> trend,
              strengths |-> IF total >= StrengthAverage * n
                            THEN {"Consistent high performance"} ELSE {},
              weaknesses |-> IF total < WeaknessAverage * n
                             THEN {"Need for fundamental review"} ELSE {},
              recent_performance |-> IF n >= PrevWindow
                                     THEN LastN(history, PrevWindow) ELSE history]

\* The dictionary returned by get_performance_analytics; average_score is
\* the mean sum / n (the rounding to three decimals is not modelled)
performance_analytics(hist, user_id) ==
    IF user_id \notin DOMAIN hist
    THEN NoAnalytics
    ELSE IF Len(hist[user_id]) = 0
    THEN NoAnalytics
    ELSE LET history == hist[user_id]
             n == Len(history)
             total == SumSeq(history)
             recent_sum == SumSeq(LastN(history, TrendWindow))
             \* earlier_avg as the mean sum / m
             earlier == IF n > TrendWindow
                        THEN [sum |-> SumSeq(SubSeq(history, 1, n - TrendWindow)),
                              m |-> n - TrendWindow]
                        ELSE [sum |-> history[1], m |-> 1]
             trend == IF n >= TrendWindow
                      THEN IF recent_sum * earlier.m
                                > TrendWindow * (earlier.sum + TrendBand * earlier.m)
                           THEN "improving"
                           ELSE IF recent_sum * earlier.m
                                     < TrendWindow * (earlier.sum - TrendBand * earlier.m)
                                THEN "declining"
                                ELSE "stable"
                      ELSE "stable"
         IN  [total_attempts |-> n,
              average_score |-> [sum |-> total, n |-> n],
              improvement_trend |-> trend,
              strengths |-> IF total > StrengthAverage * n
                            THEN {"Consistent high performance"} ELSE {},
              weaknesses |-> IF total < WeaknessAverage * n
                             THEN {"Need for fundamental review"} ELSE {},
              recent_performance |-> IF n >= PrevWindow
                                     THEN LastN(history, PrevWindow) ELSE history]

\* mutant: the call takes the oldest entry off the list (history.pop(0))
get_performance_analytics_consuming(hist, user_id) ==
    [result |-> performance_analytics(hist, user_id),
     history |-> [u \in DOMAIN hist |->
                     IF u = user_id /\ hist[u] # <<>> THEN Tail(hist[u]) ELSE hist[u]]]

\* mutant: the history is looked up with setdefault(user_id, [])
get_performance_analytics_registering(hist, user_id) ==
    [result |-> performance_analytics(hist, user_id),
     history |-> [u \in DOMAIN hist \cup {user_id} |->
                     IF u \in DOMAIN hist THEN hist[u] ELSE <<>>]]

\* get_performance_analytics: the value returned and the dict the call
\* leaves behind
get_performance_analytics(hist, user_id) ==
    [result |-> performance_analytics(hist, user_id), history |-> hist]

----------------------------------------------------------------------------
(* One controller (one QuizAdapter object) and its callers *)

Topics == {1}
BaseDifficulties == (MinDifficulty - 1) .. (MaxDifficulty + 1)
Answers == {"A", "B"}

Init ==
    /\ user_performance_history = EmptyHistory
    /\ current = [u \in Users |-> MinDifficulty]
    /\ appended = [u \in Users |-> <<>>]
    /\ script = <<0, 0>>
    /\ registered = {}
    /\ profile = EmptyHistory
    /\ requests = NoRequests
    /\ ret = [op |-> "init"]

TotalCalls == SumSeq([u \in Users |-> Len(appended[u])])

\* A primary-path call: the caller passes its current level for the user
\* and keeps the level returned.
Primary(u, e) ==
    LET r == calculate_next_difficulty(user_performance_history, u, current[u], e)
    IN  /\ user_performance_history' = r.history
        /\ current' = [current EXCEPT ![u] = r.new_difficulty]
        /\ appended' = [appended EXCEPT ![u] = Append(@, calculate_performance_score(e))]
        /\ ret' = [op |-> "calculate_next_difficulty",
                   user_id |-> u,
                   current_difficulty |-> current[u],
                   quiz_result |-> e,
                   features |-> r.features,
                   should_increase |-> r.should_increase,
                   new_difficulty |-> r.new_difficulty]
        /\ UNCHANGED <<script, requests, registered, profile>>

CalculateNextDifficulty(u, e) ==
    /\ TotalCalls < MaxCalls
    /\ Primary(u, e)

GetAdaptiveQuestions(t, u, base, n) ==
    LET r == get_adaptive_questions(user_performance_history, t, u, base, n)
    IN  /\ ret' = [op |-> "get_adaptive_questions",
                   user_id |-> u,
                   current_difficulty |-> base,
                   num_questions |-> n,
                   raised |-> r.raised,
                   questions |-> r.questions]
        /\ user_performance_history' = r.history
        /\ UNCHANGED <<current, appended, script, requests, registered, profile>>

EvaluateAnswer(ua, ca, t, c) ==
    /\ ret' = [op |-> "evaluate_answer",
               user_answer |-> ua,
               correct_answer |-> ca,
               result |-> evaluate_answer(ua, ca, t, c)]
    /\ UNCHANGED <<user_performance_history, current, appended, script, requests, registered, profile>>

GetPerformanceAnalytics(u) ==
    LET r == get_performance_analytics(user_performance_history, u)
    IN  /\ ret' = [op |-> "get_performance_analytics",
                   user_id |-> u,
                   result |-> r.result]
        /\ user_performance_history' = r.history
        /\ UNCHANGED <<current, appended, script, requests, registered, profile>>

Reads ==
    \/ \E t \in Topics, u \in Users, base \in BaseDifficulties, n \in {0, MaxQuestions} :
            GetAdaptiveQuestions(t, u, base, n)
    \/ \E ua \in Answers, ca \in Answers, t \in {0, 300}, c \in Confidences :
            EvaluateAnswer(ua, ca, t, c)
    \/ \E u \in Users : GetPerformanceAnalytics(u)

Next ==
    \/ \E u \in Users, e \in ShortEvents : CalculateNextDifficulty(u, e)
    \/ Reads

Spec == Init /\ [][Next]_vars

----------------------------------------------------------------------------
(* Long runs of one user on one controller: user 1 starts at any level and *)
(* submits the events of a script; the other users never submit.           *)

LongUser == 1

InitLong ==
    /\ user_performance_history = EmptyHistory
    /\ current \in {c \in [Users -> MinDifficulty .. MaxDifficulty] :
                        \A u \in Users \ {LongUser} : c[u] = MinDifficulty}
    /\ appended = [u \in Users |-> <<>>]
    /\ script \in Scripts
    /\ registered = {}
    /\ profile = EmptyHistory
    /\ requests = NoRequests
    /\ ret = [op |-> "init"]

LongCall ==
    /\ Len(appended[LongUser]) < LongCalls
    /\ Primary(LongUser, ScriptEvent(script, Len(appended[LongUser])))

NextLong ==
    \/ LongCall
    \/ Reads

SpecLong == InitLong /\ [][NextLong]_vars

----------------------------------------------------------------------------
(* The handlers of views.py.  Every request builds its own QuizAdapter(),  *)
(* so a handler's controller starts from the empty dict; what lasts from   *)
(* one request to the next is the User and UserProfile tables.             *)

\* request.data.get('preferred_difficulty', 1) of a registration: the key
\* is absent, holds an integer, or holds something IntegerField cannot
\* store
RegisterInputs ==
    {[kind |-> "absent", value |-> 1], [kind |-> "invalid", value |-> 0]}
        \cup {[kind |-> "int", value |-> v] : v \in BaseDifficulties}

\* time_taken of a submission: QuizSubmissionSerializer accepts any integer
PostTimes == {-30, 0, 150, 300}

DefaultConfidence == 500    \* views.py:256

InitSys ==
    /\ user_performance_history = EmptyHistory
    /\ current = [u \in Users |-> MinDifficulty]
    /\ appended = [u \in Users |-> <<>>]
    /\ script = <<0, 0>>
    /\ registered = {}
    /\ profile = EmptyHistory
    /\ requests = NoRequests
    /\ ret = [op |-> "init"]

\* RegisterView.post for a user name u; current keeps the level the
\* profile was created with.  UserProfile.objects.create runs
\* no validator: the integer given is stored as it is.  A value the
\* integer column rejects raises after create_user has stored the User
\* (requests are not wrapped in a transaction), which leaves a user without
\* a profile.
RegisterPost(u, pd) ==
    /\ IF u \in registered
       THEN /\ ret' = [op |-> "register", user_id |-> u, status |-> 400]
            /\ UNCHANGED <<registered, profile>>
       ELSE IF pd.kind = "invalid"
       THEN /\ registered' = registered \cup {u}
            /\ ret' = [op |-> "register", user_id |-> u, status |-> 500]
            /\ UNCHANGED profile
       ELSE /\ registered' = registered \cup {u}
            /\ profile' = [v \in DOMAIN profile \cup {u} |->
                              IF v = u THEN pd.value ELSE profile[v]]
            /\ ret' = [op |-> "register", user_id |-> u, status |-> 201]
    /\ current' = IF u \notin registered /\ pd.kind # "invalid"
                  THEN [current EXCEPT ![u] = pd.value]
                  ELSE current
    /\ UNCHANGED <<user_performance_history, appended, script, requests>>

\* AdaptiveQuizView.post of the authenticated user u, lines 251-271
QuizPost(u, is_correct, time_taken) ==
    /\ u \in registered
    /\ LET quiz_result == [is_correct |-> is_correct,
                           time_taken |-> time_taken,
                           confidence |-> DefaultConfidence]
       IN  IF u \in DOMAIN profile
           THEN LET r == calculate_next_difficulty(EmptyHistory, u, profile[u], quiz_result)
                IN  /\ profile' = [profile EXCEPT ![u] = r.new_difficulty]
                    /\ ret' = [op |-> "quiz_post",
                               user_id |-> u,
                               quiz_result |-> quiz_result,
                               current_difficulty |-> profile[u],
                               features |-> r.features,
                               should_increase |-> r.should_increase,
                               adapter_history |-> r.history,
                               new_difficulty |-> <<r.new_difficulty>>]
           ELSE /\ ret' = [op |-> "quiz_post",
                           user_id |-> u,
                           quiz_result |-> quiz_result,
                           new_difficulty |-> <<>>]
                /\ UNCHANGED profile
    /\ UNCHANGED <<user_performance_history, current, appended, script, requests, registered>>

\* mutant: the handler does not look the profile up and asks for level 1
QuizGet_ignores_profile(t, u, n) ==
    /\ u \in registered
    /\ LET current_difficulty == 1
           r == get_adaptive_questions(EmptyHistory, t, u, current_difficulty, n)
       IN  ret' = [op |-> "quiz_get",
                   user_id |-> u,
                   num_questions |-> n,
                   status |-> IF r.raised = "" THEN 200 ELSE 500,
                   questions |-> r.questions,
                   current_difficulty |-> current_difficulty]
    /\ UNCHANGED <<user_performance_history, current, appended, script, requests, registered, profile>>

\* AdaptiveQuizView.get of the authenticated user u
QuizGet(t, u, n) ==
    /\ u \in registered
    /\ LET current_difficulty == IF u \in DOMAIN profile THEN profile[u] ELSE 1
           r == get_adaptive_questions(EmptyHistory, t, u, current_difficulty, n)
       IN  ret' = [op |-> "quiz_get",
                   user_id |-> u,
                   num_questions |-> n,
                   status |-> IF r.raised = "" THEN 200 ELSE 500,
                   questions |-> r.questions,
                   current_difficulty |-> current_difficulty]
    /\ UNCHANGED <<user_performance_history, current, appended, script, requests, registered, profile>>

NextSys ==
    \/ \E u \in Users, pd \in RegisterInputs : RegisterPost(u, pd)
    \/ \E u \in Users, c \in BOOLEAN, t \in PostTimes : QuizPost(u, c, t)
    \/ \E t \in Topics, u \in Users, n \in {0, MaxQuestions} : QuizGet(t, u, n)

SpecSys == InitSys /\ [][NextSys]_vars

----------------------------------------------------------------------------
(* Quiz submissions served concurrently.  AdaptiveQuizView.post reads the  *)
(* profile row (UserProfile.objects.get, line 262), computes the new level *)
(* on its own QuizAdapter and writes the row back (save, line 269); it     *)
(* takes no lock and opens no transaction, so the steps of two requests    *)
(* may interleave in any order.                                            *)

\* the level AdaptiveQuizView.post computes from the level it has read
posted_difficulty(u, level, is_correct, time_taken) ==
    calculate_next_difficulty(
        EmptyHistory, u, level,
        [is_correct |-> is_correct, time_taken |-> time_taken,
         confidence |-> DefaultConfidence]).new_difficulty

\* Every user is registered with a level in {1,2,3}; current keeps the
\* levels stored before the submissions.
InitConc ==
    /\ user_performance_history = EmptyHistory
    /\ current \in [Users -> MinDifficulty .. MaxDifficulty]
    /\ appended = [u \in Users |-> <<>>]
    /\ script = <<0, 0>>
    /\ registered = Users
    /\ profile = current
    /\ requests = NoRequests
    /\ ret = [op |-> "init"]

\* lines 214-262: the submission of user u arrives in slot r and the
\* handler reads the user's profile row
PostGetProfile(r, u, is_correct, time_taken) ==
    /\ requests[r].pc = "idle"
    /\ u \in registered
    /\ requests' = [requests EXCEPT ![r] =
                       [pc |-> IF u \in DOMAIN profile THEN "read" ELSE "done",
                        user_id |-> u,
                        is_correct |-> is_correct,
                        time_taken |-> time_taken,
                        preferred_difficulty |->
                            IF u \in DOMAIN profile THEN profile[u] ELSE 0]]
    /\ UNCHANGED <<user_performance_history, current, appended, script,
                   registered, profile, ret>>

\* mutant: the handlers share one QuizAdapter object (a module-level
\* quiz_adapter), whose dict is user_performance_history
PostSaveProfile_shared_adapter(r) ==
    /\ requests[r].pc = "read"
    /\ LET q == requests[r]
           quiz_result == [is_correct |-> q.is_correct, time_taken |-> q.time_taken,
                           confidence |-> DefaultConfidence]
           d == calculate_next_difficulty(user_performance_history, q.user_id,
                                          q.preferred_difficulty, quiz_result)
       IN  /\ profile' = [profile EXCEPT ![q.user_id] = d.new_difficulty]
           /\ requests' = [requests EXCEPT ![r].pc = "done"]
           /\ user_performance_history' = d.history
           /\ ret' = [op |-> "quiz_post", user_id |-> q.user_id,
                      quiz_result |-> quiz_result,
                      current_difficulty |-> q.preferred_difficulty,
                      features |-> d.features,
                      should_increase |-> d.should_increase,
                      adapter_history |-> d.history,
                      new_difficulty |-> <<d.new_difficulty>>]
    /\ UNCHANGED <<current, appended, script, registered>>

\* lines 263-269: the handler computes the new level from the row it read,
\* on the QuizAdapter it built at line 252, and saves the row
PostSaveProfile(r) ==
    /\ requests[r].pc = "read"
    /\ LET q == requests[r]
           quiz_result == [is_correct |-> q.is_correct, time_taken |-> q.time_taken,
                           confidence |-> DefaultConfidence]
           d == calculate_next_difficulty(EmptyHistory, q.user_id,
                                          q.preferred_difficulty, quiz_result)
           new_difficulty == posted_difficulty(q.user_id, q.preferred_difficulty,
                                               q.is_correct, q.time_taken)
       IN  /\ profile' = [profile EXCEPT ![q.user_id] = new_difficulty]
           /\ requests' = [requests EXCEPT ![r].pc = "done"]
           /\ ret' = [op |-> "quiz_post", user_id |-> q.user_id,
                      quiz_result |-> quiz_result,
                      current_difficulty |-> q.preferred_difficulty,
                      features |-> d.features,
                      should_increase |-> d.should_increase,
                      adapter_history |-> d.history,
                      new_difficulty |-> <<new_difficulty>>]
    /\ UNCHANGED <<user_performance_history, current, appended, script, registered>>

\* time_taken of the submissions of SpecConc: a correct answer at 0 s
\* raises the level, the other three answers lower it
ConcTimes == {0, 300}

NextConc ==
    \/ \E r \in 1 .. NumRequests, u \in Users, c \in BOOLEAN, t \in ConcTimes :
            PostGetProfile(r, u, c, t)
    \/ \E r \in 1 .. NumRequests : PostSaveProfile(r)

SpecConc == InitConc /\ [][NextConc]_vars

----------------------------------------------------------------------------
(* One user on one controller, submitting answer events of any kind: the   *)
(* controller takes quiz_result as a plain dict and checks none of its     *)
(* values, so times below 0 and far above max_time and confidences outside *)
(* [0,1] reach _extract_features and _calculate_performance_score.         *)

WideTimes == {-30, 0, 150, 300, 10000}
WideConfidences == {-500, 0, 500, 1000, 1500}
WideEvents ==
    [is_correct : BOOLEAN, time_taken : WideTimes, confidence : WideConfidences]

InitFeat ==
    /\ user_performance_history = EmptyHistory
    /\ current \in [Users -> MinDifficulty .. MaxDifficulty]
    /\ \A u \in Users \ {LongUser} : current[u] = MinDifficulty
    /\ appended = [u \in Users |-> <<>>]
    /\ script = <<0, 0>>
    /\ registered = {}
    /\ profile = EmptyHistory
    /\ requests = NoRequests
    /\ ret = [op |-> "init"]

FeatCall(e) ==
    /\ Len(appended[LongUser]) < MaxCalls
    /\ Primary(LongUser, e)

NextFeat == \E e \in WideEvents : FeatCall(e)

SpecFeat == InitFeat /\ [][NextFeat]_vars

----------------------------------------------------------------------------
(* evaluate_answer on its own, called with times and confidences of any    *)
(* kind: the method checks none of its arguments.                          *)

EvalTimes == {-30, 0, 30, 59, 60, 179, 180, 300, 10000}
EvalConfidences == {-500, 0, 500, 700, 701, 900, 1000, 1500}

NextEval ==
    \E ua \in Answers, ca \in Answers, t \in EvalTimes, c \in EvalConfidences :
        EvaluateAnswer(ua, ca, t, c)

SpecEval == Init /\ [][NextEval]_vars

----------------------------------------------------------------------------
(* One decision of a controller that already holds a history for user 1.   *)
(* The histories are ones earlier calls leave behind: a correct answer     *)
(* with confidence 0 after 100, 200, 300, 400, 600 or 900 seconds scores   *)
(* 0.9, 0.8, 0.7, 0.6, 0.4 or 0.1.  The caller passes any level in         *)
(* {1,2,3}.  The events are the answers whose features are the rows of     *)
(* X_sample (time_score 0.8 is 60 s, and so on) and incorrect answers that *)
(* are slow and of low confidence.                                         *)

SeedHistories ==
    {<<>>, <<100, 100, 100>>, <<700>>, <<600>>, <<800>>, <<400>>, <<900>>}

RowEvents ==
    {[is_correct |-> X_sample[i][1] = Unit,
      time_taken |-> ((Unit - X_sample[i][2]) * max_time) \div Unit,
      confidence |-> X_sample[i][3]] : i \in 1 .. Len(X_sample)}

SlowWrongEvents ==
    [is_correct : {FALSE}, time_taken : {240, 300, 900}, confidence : {0, 100, 300}]

InitSeeded ==
    /\ \E h \in SeedHistories :
          /\ user_performance_history =
                 IF h = <<>> THEN EmptyHistory ELSE [u \in {LongUser} |-> h]
          /\ appended = [u \in Users |-> IF u = LongUser THEN h ELSE <<>>]
    /\ current \in [Users -> MinDifficulty .. MaxDifficulty]
    /\ \A u \in Users \ {LongUser} : current[u] = MinDifficulty
    /\ script = <<0, 0>>
    /\ registered = {}
    /\ profile = EmptyHistory
    /\ requests = NoRequests
    /\ ret = [op |-> "init"]

SeededCall(e) ==
    /\ ret.op = "init"
    /\ Primary(LongUser, e)

NextSeeded == \E e \in RowEvents \cup SlowWrongEvents : SeededCall(e)

SpecSeeded == InitSeeded /\ [][NextSeeded]_vars

----------------------------------------------------------------------------
(* Batches asked of a controller that already holds a history for user 1,  *)
(* for any user, any base level and any number of questions, negative      *)
(* numbers included (range(num_questions) is then empty).                  *)

BatchSizes == -1 .. MaxQuestions

NextBatch ==
    \E t \in Topics, u \in Users, base \in BaseDifficulties, n \in BatchSizes :
        GetAdaptiveQuestions(t, u, base, n)

SpecBatch == InitSeeded /\ [][NextBatch]_vars

----------------------------------------------------------------------------
(* Properties *)

Known(u) == u \in DOMAIN user_performance_history
Levels == MinDifficulty .. MaxDifficulty
IsPrimary == ret.op = "calculate_next_difficulty"
IsBatch == ret.op = "get_adaptive_questions"
Abs(x) == IF x >= 0 THEN x ELSE -x

\* C1: started at a level in {1,2,3} and fed its own results, the primary
\* path keeps every user's level in {1,2,3}, and each decision returns a
\* level in {1,2,3} at most one step from the level it was given.
C1_LevelInRangeOneStep ==
    /\ \A u \in Users : current[u] \in Levels
    /\ IsPrimary =>
          /\ ret.current_difficulty \in Levels
          /\ ret.new_difficulty \in Levels
          /\ Abs(ret.new_difficulty - ret.current_difficulty) <= 1
          /\ current[ret.user_id] = ret.new_difficulty

\* an "increase" decided at level 3, after more than HistoryCap decisions
C1_Witness ==
    /\ IsPrimary
    /\ Len(appended[ret.user_id]) > HistoryCap
    /\ ret.current_difficulty = MaxDifficulty
    /\ ret.should_increase = 1
    /\ ret.new_difficulty = MaxDifficulty

\* C2: the level returned is current+1 on "increase" below 3, current-1 on
\* "decrease" above 1, and the current level in the two remaining cases.
C2_TransitionRule ==
    IsPrimary =>
        LET cur == ret.current_difficulty
            new == ret.new_difficulty
        IN  /\ (ret.should_increase = 1 /\ cur < 3) => new = cur + 1
            /\ (ret.should_increase = 0 /\ cur > 1) => new = cur - 1
            /\ (ret.should_increase = 1 /\ cur = 3) => new = cur
            /\ (ret.should_increase = 0 /\ cur = 1) => new = cur

\* a "decrease" decided at level 1
C2_Witness ==
    /\ IsPrimary
    /\ ret.should_increase = 0
    /\ ret.current_difficulty = MinDifficulty
    /\ ret.new_difficulty = MinDifficulty
    /\ Len(appended[ret.user_id]) > 1

\* C3: no history is ever longer than 20 entries.
C3_HistoryBounded ==
    \A u \in DOMAIN user_performance_history :
        Len(user_performance_history[u]) <= 20

\* a read after more than 20 appends for one user
C3_Witness ==
    /\ ret.op \in {"get_adaptive_questions", "evaluate_answer", "get_performance_analytics"}
    /\ \E u \in Users :
          /\ Len(appended[u]) > 20
          /\ Known(u)
          /\ Len(user_performance_history[u]) = 20

\* C4: after N appends a user's history is the last min(N, 20) appended
\* scores, in the order of their insertion; a user with no append has no
\* history.
C4_HistoryIsTailOfAppended ==
    \A u \in Users :
        LET N == Len(appended[u])
        IN  IF N = 0
            THEN ~Known(u)
            ELSE /\ Known(u)
                 /\ LET h == user_performance_history[u]
                    IN  /\ Len(h) = IF N <= 20 THEN N ELSE 20
                        /\ \A i \in 1 .. Len(h) : h[i] = appended[u][N - Len(h) + i]

\* 25 appends: 20 entries remain, the oldest 5 are gone
C4_Witness ==
    \E u \in Users :
        /\ Len(appended[u]) = 25
        /\ Known(u)
        /\ Len(user_performance_history[u]) = 20
        /\ user_performance_history[u] = SubSeq(appended[u], 6, 25)
        /\ user_performance_history[u][1] # appended[u][1]

\* C5: every stored preferred_difficulty is in {1,2,3}, whatever was given
\* at registration and whatever was submitted since.
C5_StoredDifficultyInRange ==
    \A u \in DOMAIN profile : profile[u] \in Levels

\* the label the trend rule gives for a trend value sum / n
TrendLabel(base, sum, n) ==
    IF sum > 700 * n
    THEN (IF base + 1 < 3 THEN base + 1 ELSE 3)
    ELSE IF sum < 300 * n
         THEN (IF base - 1 > 1 THEN base - 1 ELSE 1)
         ELSE base

\* the batch of ret was issued without an error and every one of its
\* num_questions questions carries the label d
AllLabelled(d) ==
    /\ ret.raised = ""
    /\ Len(ret.questions) = ret.num_questions
    /\ \A i \in 1 .. Len(ret.questions) : ret.questions[i].difficulty_level = d

\* C6: for a user with at least 3 entries and a base level in {1,2,3},
\* every question of a batch is labelled min(3, base+1) when the mean of
\* the last 3 entries is > 0.7, max(1, base-1) when it is < 0.3, and base
\* otherwise (so also at exactly 0.7 and 0.3).
C6_TrendRule ==
    (/\ IsBatch
     /\ Known(ret.user_id)
     /\ ret.current_difficulty \in Levels)
    => LET h == user_performance_history[ret.user_id]
           n == Len(h)
       IN  n >= 3 => AllLabelled(TrendLabel(ret.current_difficulty,
                                            h[n] + h[n - 1] + h[n - 2], 3))

\* history ending 0.9, 0.9, 0.9, base 2, three questions, all labelled 3
C6_Witness ==
    /\ IsBatch
    /\ Known(ret.user_id)
    /\ Len(user_performance_history[ret.user_id]) >= 3
    /\ LastN(user_performance_history[ret.user_id], 3) = <<900, 900, 900>>
    /\ ret.current_difficulty = 2
    /\ ret.num_questions = 3
    /\ AllLabelled(3)

\* C7 as stated: with 1 or 2 entries the trend value is the mean of the
\* entries present.
C7_ShortHistoryUsesMean ==
    (/\ IsBatch
     /\ Known(ret.user_id)
     /\ ret.current_difficulty \in Levels)
    => LET h == user_performance_history[ret.user_id]
       IN  Len(h) \in {1, 2} =>
               AllLabelled(TrendLabel(ret.current_difficulty, SumSeq(h), Len(h)))

\* C7 amended: with 1 or 2 entries the trend value is the last entry alone.
C7_ShortHistoryUsesLastEntry ==
    (/\ IsBatch
     /\ Known(ret.user_id)
     /\ ret.current_difficulty \in Levels)
    => LET h == user_performance_history[ret.user_id]
       IN  Len(h) \in {1, 2} =>
               AllLabelled(TrendLabel(ret.current_difficulty, h[Len(h)], 1))

\* history [0.0, 1.0], base 2: the three questions are labelled 3
C7_Witness ==
    /\ IsBatch
    /\ Known(ret.user_id)
    /\ user_performance_history[ret.user_id] = <<0, 1000>>
    /\ ret.current_difficulty = 2
    /\ ret.num_questions = 3
    /\ AllLabelled(3)

\* C8: every label a batch carries is in {1,2,3}, for every base level
\* passed in (0 and 4 included) and every history, none included.
C8_LabelsInRange ==
    IsBatch => \A i \in 1 .. Len(ret.questions) :
                   ret.questions[i].difficulty_level \in {1, 2, 3}

\* a batch issued for base 4 to a user with a history
C8_Witness ==
    /\ IsBatch
    /\ ret.current_difficulty = 4
    /\ Known(ret.user_id)
    /\ ret.num_questions = 3
    /\ Len(ret.questions) = 3

\* the primary call of ret was the first one for its user
FirstCall == IsPrimary /\ Len(appended[ret.user_id]) = 1

\* C9: for a user without history a batch at a base level in {1,2,3}
\* labels every question with the base level, no label of any batch
\* differs from the base, and the user's first primary call uses 0.5 as
\* previous_performance.
C9_NewUser ==
    /\ (IsBatch /\ ~Known(ret.user_id)) =>
          /\ ret.current_difficulty \in Levels => AllLabelled(ret.current_difficulty)
          /\ \A i \in 1 .. Len(ret.questions) :
                ret.questions[i].difficulty_level = ret.current_difficulty
    /\ FirstCall =>
          ret.features.previous_performance.sum * 2
              = ret.features.previous_performance.n * 1000

\* a batch at base 3 for a user without history, on a controller that
\* holds another user's history
C9_Witness ==
    /\ IsBatch
    /\ ~Known(ret.user_id)
    /\ \E v \in Users : Known(v)
    /\ ret.current_difficulty = 3
    /\ ret.num_questions = 3
    /\ AllLabelled(3)

ReadOps == {"get_adaptive_questions", "evaluate_answer", "get_performance_analytics"}

\* C10: a batch request, an evaluation and an analytics read leave every
\* history (and the set of users that have one) and every current level
\* as they were.
C10_ReadsChangeNothing ==
    [][ret'.op \in ReadOps =>
          /\ user_performance_history' = user_performance_history
          /\ current' = current]_vars

\* an analytics read for a user without history, after two appends for
\* another user whose level has moved
C10_Witness ==
    /\ ret.op = "get_performance_analytics"
    /\ ~Known(ret.user_id)
    /\ \E v \in Users :
          /\ Known(v)
          /\ Len(user_performance_history[v]) = 2
          /\ current[v] # MinDifficulty

\* the level stored after the submissions of slots r1 and then r2 are
\* served one after the other, from the level stored before both
SerialLevel(u, r1, r2) ==
    posted_difficulty(
        u,
        posted_difficulty(u, current[u], requests[r1].is_correct, requests[r1].time_taken),
        requests[r2].is_correct, requests[r2].time_taken)

\* C11: when the two submissions of one user have both been served, the
\* stored level is the one left by serving them one after the other, in
\* one of the two orders.
C11_NoLostUpdate ==
    \A u \in Users, r1 \in 1 .. NumRequests, r2 \in 1 .. NumRequests :
        (/\ r1 # r2
         /\ requests[r1].pc = "done" /\ requests[r1].user_id = u
         /\ requests[r2].pc = "done" /\ requests[r2].user_id = u
         /\ \A r \in 1 .. NumRequests :
               r \notin {r1, r2} => requests[r].user_id # u)
        => profile[u] \in {SerialLevel(u, r1, r2), SerialLevel(u, r2, r1)}

\* the dict of a controller that has only ever seen the events h of user u
OwnHistory(u, h) ==
    IF h = <<>> THEN EmptyHistory ELSE [x \in {u} |-> LastN(h, HistoryCap)]

\* C12: a primary call for user A leaves the history of every other user
\* B (and whether B has one) and B's level as they were, and what an
\* operation returns for B (features and next level, the questions of a
\* batch, the analytics) is what a controller that has only seen B's own
\* events returns.
C12_UsersIndependent ==
    [][/\ \A A \in Users : appended'[A] # appended[A] =>
             \A B \in Users \ {A} :
                 /\ Known(B)' = Known(B)
                 /\ Known(B) => user_performance_history'[B] = user_performance_history[B]
                 /\ current'[B] = current[B]
       /\ ret'.op = "calculate_next_difficulty" =>
             LET own == calculate_next_difficulty(
                            OwnHistory(ret'.user_id, appended[ret'.user_id]),
                            ret'.user_id, ret'.current_difficulty, ret'.quiz_result)
             IN  /\ ret'.features = own.features
                 /\ ret'.new_difficulty = own.new_difficulty
       /\ ret'.op = "get_adaptive_questions" =>
             \E t \in Topics :
                 ret'.questions =
                     get_adaptive_questions(
                         OwnHistory(ret'.user_id, appended[ret'.user_id]),
                         t, ret'.user_id, ret'.current_difficulty,
                         ret'.num_questions).questions
       /\ ret'.op = "get_performance_analytics" =>
             ret'.result = performance_analytics(
                               OwnHistory(ret'.user_id, appended[ret'.user_id]),
                               ret'.user_id)
      ]_vars

\* user 2 has submitted after user 1, and an operation has then returned
\* for user 1, whose history is still its own single entry
C12_Witness ==
    /\ \A u \in Users : Known(u)
    /\ Len(appended[1]) = 1
    /\ user_performance_history[1] = appended[1]
    /\ user_performance_history[2] # user_performance_history[1]
    /\ ret.op = "get_performance_analytics"
    /\ ret.user_id = 1

\* the scores the user had been given before the decision now returned
ScoresBefore == SubSeq(appended[ret.user_id], 1, Len(appended[ret.user_id]) - 1)

\* C13: the previous_performance of a decision is 0.5 when the user had no
\* score before it, and otherwise the mean of the last 5 scores given
\* before it (of all of them when they are fewer than 5).
C13_PreviousPerformance ==
    IsPrimary =>
        LET pp == ret.features.previous_performance
            before == ScoresBefore
            k == Min(Len(before), 5)
            window == SubSeq(before, Len(before) - k + 1, Len(before))
        IN  /\ pp.n > 0
            /\ IF k = 0
               THEN pp.sum * 2 = pp.n * Unit
               ELSE pp.sum * k = pp.n * SumSeq(window)

\* a decision taken on more than 5 earlier scores whose last 5 have
\* another mean than all of them
C13_Witness ==
    /\ IsPrimary
    /\ Len(ScoresBefore) > 5
    /\ SumSeq(SubSeq(ScoresBefore, Len(ScoresBefore) - 4, Len(ScoresBefore))) * Len(ScoresBefore)
           # SumSeq(ScoresBefore) * 5
    /\ ret.features.previous_performance.n = 5

\* an answer event as the submission collaborator is meant to deliver it
ValidEvent(e) == e.time_taken >= 0 /\ e.confidence >= 0 /\ e.confidence <= Unit

InUnitInterval(x) == 0 <= x /\ x <= Unit

\* C14: for a valid answer event, whatever the history, the four features
\* are in [0,1]; time_score is 1 at time_taken = 0 and 0 at time_taken =
\* 300 and at time_taken = 10000.
C14_FeaturesInRange ==
    (IsPrimary /\ ValidEvent(ret.quiz_result)) =>
        /\ InUnitInterval(ret.features.correctness)
        /\ InUnitInterval(ret.features.time_score)
        /\ InUnitInterval(ret.features.confidence)
        /\ ret.features.previous_performance.n > 0
        /\ 0 <= ret.features.previous_performance.sum
        /\ ret.features.previous_performance.sum
               <= ret.features.previous_performance.n * Unit
        /\ ret.quiz_result.time_taken = 0 => ret.features.time_score = Unit
        /\ ret.quiz_result.time_taken \in {300, 10000} => ret.features.time_score = 0

\* a valid event at 10000 s, decided on a history that an event with a
\* negative time and a confidence above 1 has left
C14_Witness ==
    /\ IsPrimary
    /\ ValidEvent(ret.quiz_result)
    /\ ret.quiz_result.time_taken = 10000
    /\ ret.features.time_score = 0
    /\ Len(appended[ret.user_id]) = 2
    /\ ret.features.previous_performance.sum = Unit

\* C15: for every answer event the features are in [0,1]; a negative
\* time_taken gives time_score 1 as time_taken = 0 does, a confidence
\* above 1 gives the confidence feature 1 and one below 0 gives 0.
C15_FeaturesClamped ==
    IsPrimary =>
        /\ InUnitInterval(ret.features.time_score)
        /\ InUnitInterval(ret.features.confidence)
        /\ ret.quiz_result.time_taken < 0 => ret.features.time_score = Unit
        /\ ret.quiz_result.confidence > Unit => ret.features.confidence = Unit
        /\ ret.quiz_result.confidence < 0 => ret.features.confidence = 0

IsEvaluation == ret.op = "evaluate_answer"

\* 300000 times base_score + time_bonus + confidence_bonus for the call
\* that has returned, from the three terms of the claim
TotalTimes300000 ==
    LET correct == ret.user_answer = ret.correct_answer
        t == ret.result.time_taken
        c == ret.result.confidence
    IN  (IF correct THEN 3000000 ELSE 0)
        + (IF t < 300 THEN (300 - t) * 5000 ELSE 0)
        + (IF correct THEN c * 600 ELSE 0)

\* C16: evaluate_answer returns is_correct = (user_answer = correct_answer)
\* and as score the sum of 10 if correct, max(0, (300 - time_taken)/300*5)
\* and confidence*2 if correct, cut to its integer part; an incorrect
\* answer's score is the cut time bonus alone; a correct answer at 30 s
\* with confidence 0.9 scores 16.
C16_ScoreFormula ==
    IsEvaluation =>
        /\ ret.result.is_correct = (ret.user_answer = ret.correct_answer)
        /\ IF TotalTimes300000 >= 0
           THEN /\ ret.result.score * 300000 <= TotalTimes300000
                /\ TotalTimes300000 < (ret.result.score + 1) * 300000
           ELSE /\ ret.result.score * 300000 >= TotalTimes300000
                /\ TotalTimes300000 > (ret.result.score - 1) * 300000
        /\ ~ret.result.is_correct =>
              ret.result.score = Max(0, ((300 - ret.result.time_taken) * 5) \div 300)
        /\ (ret.result.is_correct /\ ret.result.time_taken = 30
              /\ ret.result.confidence = 900) => ret.result.score = 16

\* the example of the claim has been evaluated
C16_Witness ==
    /\ IsEvaluation
    /\ ret.result.is_correct
    /\ ret.result.time_taken = 30
    /\ ret.result.confidence = 900
    /\ ret.result.score = 16

\* the arguments of the evaluation that has returned are valid
ValidEvaluation ==
    /\ ret.result.time_taken >= 0
    /\ ret.result.confidence >= 0
    /\ ret.result.confidence <= Unit

\* C17: for time_taken >= 0 and a confidence in [0,1] the score of
\* evaluate_answer is between 0 and 17.
C17_ScoreBounds ==
    (IsEvaluation /\ ValidEvaluation) =>
        /\ ret.result.score \in Int
        /\ 0 <= ret.result.score
        /\ ret.result.score <= 17

\* the best valid answer (correct, at once, fully confident) has scored 17
C17_Witness ==
    /\ IsEvaluation
    /\ ValidEvaluation
    /\ ret.result.is_correct
    /\ ret.result.time_taken = 0
    /\ ret.result.confidence = Unit
    /\ ret.result.score = 17

\* C18: the score never exceeds 17; with a negative time_taken it is the
\* score for time_taken = 0, and with a confidence above 1 it is the score
\* for confidence = 1.
C18_ScoreClamped ==
    IsEvaluation =>
        /\ ret.result.score <= 17
        /\ ret.result.time_taken < 0 =>
              ret.result.score =
                  evaluate_answer(ret.user_answer, ret.correct_answer, 0,
                                  ret.result.confidence).score
        /\ ret.result.confidence > Unit =>
              ret.result.score =
                  evaluate_answer(ret.user_answer, ret.correct_answer,
                                  ret.result.time_taken, Unit).score

\* C19: the feedback of evaluate_answer is fast-correct for a correct
\* answer under 60 s, normal-correct from 60 s to under 180 s, slow-correct
\* from 180 s on, confident-incorrect for an incorrect answer with a
\* confidence above 0.7 and encouraging-incorrect otherwise.
C19_FeedbackCategory ==
    IsEvaluation =>
        LET correct == ret.user_answer = ret.correct_answer
            t == ret.result.time_taken
            c == ret.result.confidence
            f == ret.result.feedback
        IN  /\ f = "fast-correct" <=> (correct /\ t < 60)
            /\ f = "normal-correct" <=> (correct /\ 60 <= t /\ t < 180)
            /\ f = "slow-correct" <=> (correct /\ t >= 180)
            /\ f = "confident-incorrect" <=> (~correct /\ c > 700)
            /\ f = "encouraging-incorrect" <=> (~correct /\ c <= 700)

\* a correct answer at exactly 60 s has been given the normal feedback
C19_Witness ==
    /\ IsEvaluation
    /\ ret.result.is_correct
    /\ ret.result.time_taken = 60
    /\ ret.result.feedback = "normal-correct"

\* 5000 times correctness - max(0, time_taken/300*0.3) + confidence*0.2
\* for the event of the decision that has returned
RawScoreTimes5000 ==
    (IF ret.quiz_result.is_correct THEN 5000 ELSE 0)
    - (IF ret.quiz_result.time_taken > 0 THEN 5 * ret.quiz_result.time_taken ELSE 0)
    + ret.quiz_result.confidence

\* C20: every entry of every history is in [0,1], whatever the events
\* were, and the entry a decision appends is correctness - max(0,
\* time_taken/300*0.3) + confidence*0.2 brought into [0,1].
C20_ScoresInUnitInterval ==
    /\ \A u \in DOMAIN user_performance_history :
          \A i \in 1 .. Len(user_performance_history[u]) :
              InUnitInterval(user_performance_history[u][i])
    /\ IsPrimary =>
          LET h == user_performance_history[ret.user_id]
              score == h[Len(h)]
          IN  IF RawScoreTimes5000 < 0
              THEN score = 0
              ELSE IF RawScoreTimes5000 > 5000
                   THEN score = Unit
                   ELSE 5 * score = RawScoreTimes5000

\* a score of 1 is followed by the score of an incorrect answer with a
\* negative confidence, raised to 0
C20_Witness ==
    /\ IsPrimary
    /\ RawScoreTimes5000 < 0
    /\ ret.quiz_result.confidence < 0
    /\ Len(user_performance_history[ret.user_id]) = 2
    /\ user_performance_history[ret.user_id] = <<Unit, 0>>
    /\ ret.features.confidence < 0

IsAnalytics == ret.op = "get_performance_analytics"

\* C21: the analytics of a user who has never been given a score are
\* total attempts 0, average 0, trend 'stable', no strength and no
\* weakness, and the user still has no history after the call.
C21_AnalyticsOfUnknownUser ==
    (IsAnalytics /\ appended[ret.user_id] = <<>>) =>
        /\ ret.result.total_attempts = 0
        /\ ret.result.average_score.sum = 0
        /\ ret.result.improvement_trend = "stable"
        /\ ret.result.strengths = {}
        /\ ret.result.weaknesses = {}
        /\ ~Known(ret.user_id)

\* the analytics of a user without scores, asked of a controller that
\* holds the history of another user
C21_Witness ==
    /\ IsAnalytics
    /\ appended[ret.user_id] = <<>>
    /\ ret.result.total_attempts = 0
    /\ \E v \in Users : v # ret.user_id /\ Known(v)

\* the history of the user the last result is about
ResultHistory == user_performance_history[ret.user_id]

\* the trend of recent = sum3 / k against earlier = esum / m with the band
\* of 0.1
BandTrend(sum3, k, esum, m) ==
    IF sum3 * m > k * (esum + 100 * m)
    THEN "improving"
    ELSE IF sum3 * m < k * (esum - 100 * m) THEN "declining" ELSE "stable"

\* the trend of a history of at least 3 entries: the mean of the last 3
\* against the mean of the entries before them, or against the first
\* entry when there are none before them
LongTrend(h) ==
    LET n == Len(h)
    IN  IF n > 3
        THEN BandTrend(h[n - 2] + h[n - 1] + h[n], 3, SumSeq(SubSeq(h, 1, n - 3)), n - 3)
        ELSE BandTrend(h[n - 2] + h[n - 1] + h[n], 3, h[1], 1)

\* C22 as stated: for every non-empty history the trend compares the mean
\* of the last 3 entries (of all entries when fewer than 3) with the mean
\* of the entries before the last 3 (the first entry when the history has
\* fewer than 4).
C22_TrendOfEveryHistory ==
    (IsAnalytics /\ Known(ret.user_id)) =>
        ret.result.improvement_trend =
            IF Len(ResultHistory) >= 3
            THEN LongTrend(ResultHistory)
            ELSE BandTrend(SumSeq(ResultHistory), Len(ResultHistory), ResultHistory[1], 1)

\* C22, amended: a history of 1 or 2 entries has the trend 'stable'; a
\* history of 3 or more compares the mean of its last 3 entries with the
\* mean of the entries before them (with the first entry when there are
\* exactly 3), 'improving' above earlier + 0.1, 'declining' below
\* earlier - 0.1, 'stable' otherwise.
C22_TrendFromThreeEntries ==
    (IsAnalytics /\ Known(ret.user_id)) =>
        ret.result.improvement_trend =
            IF Len(ResultHistory) >= 3 THEN LongTrend(ResultHistory) ELSE "stable"

\* a history of two entries that rises by more than the band and is
\* reported 'stable'
C22_Witness ==
    /\ IsAnalytics
    /\ Known(ret.user_id)
    /\ Len(ResultHistory) = 2
    /\ ResultHistory[2] > 2 * 100 + ResultHistory[1]
    /\ ret.result.improvement_trend = "stable"

HasStrength == ret.result.strengths # {}
HasWeakness == ret.result.weaknesses # {}

\* C23 as stated: the strength flag is present exactly when the average
\* of the history is at least 0.7, the weakness flag exactly when it is
\* below 0.4, and never both.
C23_StrengthFromSevenTenths ==
    (IsAnalytics /\ Known(ret.user_id)) =>
        /\ HasStrength <=> SumSeq(ResultHistory) >= 700 * Len(ResultHistory)
        /\ HasWeakness <=> SumSeq(ResultHistory) < 400 * Len(ResultHistory)
        /\ ~(HasStrength /\ HasWeakness)

\* C23, amended: the strength flag is present exactly when the average of
\* the history is above 0.7 (an average of exactly 0.7 has none), the
\* weakness flag exactly when it is below 0.4, and never both.
C23_StrengthAboveSevenTenths ==
    (IsAnalytics /\ Known(ret.user_id)) =>
        /\ HasStrength <=> SumSeq(ResultHistory) > 700 * Len(ResultHistory)
        /\ HasWeakness <=> SumSeq(ResultHistory) < 400 * Len(ResultHistory)
        /\ ~(HasStrength /\ HasWeakness)

\* the analytics of a history whose average is exactly 0.7 carry no flag
C23_Witness ==
    /\ IsAnalytics
    /\ Known(ret.user_id)
    /\ SumSeq(ResultHistory) = 700 * Len(ResultHistory)
    /\ ~HasStrength
    /\ ~HasWeakness

\* C24: once get_performance_analytics or get_adaptive_questions has
\* returned, the same call made again returns the same result (the
\* recent-performance list included) and leaves the histories as they
\* are, so any number of repetitions without a primary call in between
\* return that result.
C24_ReadsIdempotent ==
    /\ IsAnalytics =>
          LET again == get_performance_analytics(user_performance_history, ret.user_id)
          IN  /\ again.result = ret.result
              /\ again.history = user_performance_history
    /\ IsBatch =>
          \E t \in Topics :
              LET again == get_adaptive_questions(user_performance_history, t,
                               ret.user_id, ret.current_difficulty, ret.num_questions)
              IN  /\ again.raised = ret.raised
                  /\ again.questions = ret.questions
                  /\ again.history = user_performance_history

\* analytics with a recent-performance list of two scores have been
\* returned
C24_Witness ==
    /\ IsAnalytics
    /\ Known(ret.user_id)
    /\ ret.result.total_attempts = 2
    /\ ret.result.recent_performance = ResultHistory
    /\ ret.result.recent_performance[1] # ret.result.recent_performance[2]

\* the features of the decision that has returned are row i of X_sample
FeaturesAreRow(i) ==
    /\ ret.features.correctness = X_sample[i][1]
    /\ ret.features.time_score = X_sample[i][2]
    /\ ret.features.confidence = X_sample[i][3]
    /\ ret.features.previous_performance.sum
          = X_sample[i][4] * ret.features.previous_performance.n

\* C25: with history [0.1,0.1,0.1] and level 2 an incorrect, slow answer
\* of low confidence is classified 'decrease' and the level returned is
\* 1; a decision whose features are a training row gets that row's label
\* (rows 1, 3, 5 increase, rows 2, 4 decrease).
C25_TrainingRowsAndScenario ==
    IsPrimary =>
        /\ (/\ ScoresBefore = <<100, 100, 100>>
            /\ ret.current_difficulty = 2
            /\ ~ret.quiz_result.is_correct
            /\ ret.quiz_result.time_taken >= 240
            /\ ret.quiz_result.confidence <= 300)
           => (ret.should_increase = 0 /\ ret.new_difficulty = 1)
        /\ \A i \in {1, 3, 5} : FeaturesAreRow(i) => ret.should_increase = 1
        /\ \A i \in {2, 4} : FeaturesAreRow(i) => ret.should_increase = 0

\* the decision of the scenario has been taken
C25_Witness ==
    /\ IsPrimary
    /\ ScoresBefore = <<100, 100, 100>>
    /\ ret.current_difficulty = 2
    /\ ~ret.quiz_result.is_correct
    /\ ret.quiz_result.time_taken = 300
    /\ ret.quiz_result.confidence = 100
    /\ ret.new_difficulty = 1

\* the list of user u in the dict, empty when u has none
ListOf(hist, u) == IF u \in DOMAIN hist THEN hist[u] ELSE <<>>

\* C26: in a primary call the previous_performance of the decision is
\* taken from the user's list as it was before the call (0.5 when it had
\* none), and the call then puts exactly one score, that of this answer,
\* at the end of the list (dropping the oldest one of a full list),
\* whether or not the level changes.
C26_FeaturesBeforeAppend ==
    [][ret'.op = "calculate_next_difficulty" =>
          LET u == ret'.user_id
              before == ListOf(user_performance_history, u)
              after == ListOf(user_performance_history', u)
              window == LastN(before, 5)
              pp == ret'.features.previous_performance
          IN  /\ IF before = <<>>
                 THEN pp.sum * 2 = pp.n * Unit
                 ELSE pp.sum * Len(window) = pp.n * SumSeq(window)
              /\ Len(after) = Min(Len(before) + 1, 20)
              /\ after[Len(after)] = calculate_performance_score(ret'.quiz_result)
              /\ \A i \in 1 .. Len(after) - 1 :
                    after[i] = before[i + Len(before) + 1 - Len(after)]
      ]_vars

\* a decision that keeps the level has appended a score unlike the
\* previous_performance it was taken on
C26_Witness ==
    /\ IsPrimary
    /\ ret.new_difficulty = ret.current_difficulty
    /\ Len(ScoresBefore) >= 2
    /\ ret.features.previous_performance.sum
          # ret.features.previous_performance.n
              * ResultHistory[Len(ResultHistory)]
    /\ (ret.features.previous_performance.sum + ResultHistory[Len(ResultHistory)])
          * Len(ScoresBefore)
          # SumSeq(ScoresBefore) * (ret.features.previous_performance.n + 1)

\* C27: a batch for a base level in {1,2,3} (and any batch that returns
\* at all) has exactly num_questions entries, none when num_questions is
\* 0 or less; entry i is question number i, and all entries carry the
\* same difficulty label.
C27_BatchShape ==
    (IsBatch /\ (ret.current_difficulty \in Levels \/ ret.raised = "")) =>
        /\ ret.raised = ""
        /\ Len(ret.questions) = (IF ret.num_questions > 0 THEN ret.num_questions ELSE 0)
        /\ \A i \in 1 .. Len(ret.questions) : ret.questions[i].question_num = i
        /\ \A i \in 1 .. Len(ret.questions), j \in 1 .. Len(ret.questions) :
              ret.questions[i].difficulty_level = ret.questions[j].difficulty_level

\* a full batch at base 1 for a user with a high score: every question
\* is labelled 2
C27_Witness ==
    /\ IsBatch
    /\ ret.num_questions = MaxQuestions
    /\ ret.current_difficulty = 1
    /\ Known(ret.user_id)
    /\ ResultHistory = <<900>>
    /\ Len(ret.questions) = MaxQuestions
    /\ \A i \in 1 .. MaxQuestions :
          /\ ret.questions[i].question_num = i
          /\ ret.questions[i].difficulty_level = 2

IsQuizPost == ret.op = "quiz_post"

\* C28: every decision of the submission handler is taken on an adapter
\* without history: previous_performance is 0.5, the confidence is 0.5,
\* the adapter ends with the one score of this request, nothing is kept
\* between requests, and the level saved follows from the level read and
\* this answer alone.
C28_FreshAdapterPerRequest ==
    IsQuizPost =>
        /\ ret.features.previous_performance.sum * 2
              = ret.features.previous_performance.n * Unit
        /\ ret.quiz_result.confidence = 500
        /\ ret.features.confidence = 500
        /\ DOMAIN ret.adapter_history = {ret.user_id}
        /\ Len(ret.adapter_history[ret.user_id]) = 1
        /\ user_performance_history = EmptyHistory
        /\ ret.should_increase =
              predict([correctness |-> IF ret.quiz_result.is_correct THEN Unit ELSE 0,
                       time_score |-> ret.features.time_score,
                       confidence |-> 500,
                       previous_performance |-> [sum |-> 500, n |-> 1]])
        /\ ret.new_difficulty =
              <<next_level(ret.should_increase, ret.current_difficulty)>>

\* the second of two submissions of one user, served after the first: it
\* read the level the first had saved and was still decided on 0.5
C28_Witness ==
    /\ IsQuizPost
    /\ \A r \in 1 .. NumRequests :
          requests[r].pc = "done" /\ requests[r].user_id = ret.user_id
    /\ ret.current_difficulty # current[ret.user_id]
    /\ ret.features.previous_performance = [sum |-> 500, n |-> 1]
    /\ ~ret.quiz_result.is_correct

\* the level the batch handler finds for the user of the last result
StoredLevel(p, u) == IF u \in DOMAIN p THEN p[u] ELSE 1

\* C29: the batch handler leaves every stored level as it is, and every
\* question it returns is labelled with the user's stored level (1 for a
\* user without profile), whatever was submitted before.
C29_BatchAtStoredLevel ==
    [][ret'.op = "quiz_get" =>
          /\ profile' = profile
          /\ ret'.current_difficulty = StoredLevel(profile, ret'.user_id)
          /\ \A i \in 1 .. Len(ret'.questions) :
                ret'.questions[i].difficulty_level = StoredLevel(profile, ret'.user_id)
      ]_vars

\* a full batch for a user whose stored level has been moved by a
\* submission since registration
C29_Witness ==
    /\ ret.op = "quiz_get"
    /\ ret.status = 200
    /\ ret.user_id \in DOMAIN profile
    /\ profile[ret.user_id] # current[ret.user_id]
    /\ Len(ret.questions) = MaxQuestions
    /\ \A i \in 1 .. MaxQuestions :
          ret.questions[i].difficulty_level = profile[ret.user_id]

\* C30: after k primary calls for a user the analytics report
\* total_attempts = min(k, 20), and the average is that of the last
\* min(k, 20) scores given.
C30_AttemptsCapped ==
    (IsAnalytics /\ appended[ret.user_id] # <<>>) =>
        LET k == Len(appended[ret.user_id])
            kept == IF k < 20 THEN k ELSE 20
            retained == SubSeq(appended[ret.user_id], k - kept + 1, k)
        IN  /\ ret.result.total_attempts = kept
            /\ ret.result.average_score.n > 0
            /\ ret.result.average_score.sum * kept
                  = ret.result.average_score.n * SumSeq(retained)

\* analytics after more than 20 calls: 20 attempts, and an average unlike
\* that of all the scores given
C30_Witness ==
    /\ IsAnalytics
    /\ Len(appended[ret.user_id]) > 20
    /\ ret.result.total_attempts = 20
    /\ ret.result.average_score.sum * Len(appended[ret.user_id])
          # ret.result.average_score.n * SumSeq(appended[ret.user_id])

====
